---- MODULE Spec2Model ----
(***************************************************************************)
(* State-machine model of core/rag_manager.py (class RAGManager): the      *)
(* document-store lifecycle manager, its persisted configuration file and  *)
(* the remote file-search service it talks to.                             *)
(*                                                                         *)
(* Python values are represented as follows.                               *)
(*   Optional[T]   a sequence: <<>> is None, <<v>> is the value v          *)
(*   str           a sequence of naturals: <<>> is the empty string, the   *)
(*                 store identifier number k is the string <<k>>           *)
(*   store handle  a record [name |-> str]                                 *)
(*   dict          a record [has_store_name, store_name]                   *)
(***************************************************************************)
EXTENDS Integers, Sequences, FiniteSets, TLC

\* ---------------------------------------------------------------- bounds
MaxStores == 2
MaxDocs == 2
MaxTimeout == 11
MaxExp == 1
MaxPkas == 4
MaxFiles == 2

\* time.sleep(5); elapsed += 5
PollInterval == 5
\* upload_file's default timeout, and the one the indexing script passes.
DefaultTimeout == 300
ScriptTimeout == 900

Procs == {1, 2}
\* The processes of the single-session specification.
SessionProcs == {1}

StoreIds == 1..MaxStores
Timeouts == (0 - 1)..MaxTimeout

\* ---------------------------------------------------------- Python values
None == <<>>
Some(v) == <<v>>
IsNone(o) == o = <<>>
Val(o) == o[1]

EmptyStr == <<>>
StoreName(k) == <<k>>
StoreNames == {StoreName(k) : k \in StoreIds}

\* A variant that tests "is not None" instead of truthiness.
Truthy_NotNone(o) == ~IsNone(o)

\* Python truthiness of an Optional[str]: None and "" are falsy.
Truthy(o) == ~IsNone(o) /\ Len(Val(o)) > 0

Handle(name) == [name |-> name]

ValueError == [type |-> "ValueError", text |-> "A file search store must be created first", arg |-> 0]
TimeoutError(timeout) == [type |-> "TimeoutError", text |-> "File upload did not complete within {timeout} seconds", arg |-> timeout]
RemoteError == [type |-> "RemoteServiceError", text |-> "", arg |-> 0]
OSError == [type |-> "OSError", text |-> "", arg |-> 0]
NoError == [type |-> "", text |-> "", arg |-> 0]

\* ------------------------------------------------------- persisted config
\* A Python dict with at most the key "store_name".
Dict(has, name) == [has_store_name |-> has, store_name |-> name]
EmptyDict == Dict(FALSE, None)
\* dict.get(key): the value, or None when the key is missing.
DictGet(d) == IF d.has_store_name THEN d.store_name ELSE None

\* The text of a file: not JSON at all (also the empty, truncated file), a JSON
\* value that is no object, or a JSON object.
InvalidText == [kind |-> "invalid", obj |-> EmptyDict]
ArrayText == [kind |-> "array", obj |-> EmptyDict]
\* A variant that writes the record under another key than the one read back.
JsonDump_OtherKey(d) == [kind |-> "object", obj |-> EmptyDict]

\* json.dump(obj, f)
JsonDump(d) == [kind |-> "object", obj |-> d]
\* json.load(f): [ok, isdict, obj]; not ok is json.JSONDecodeError.
JsonLoad(text) ==
    [ok |-> text.kind # "invalid", isdict |-> text.kind = "object", obj |-> text.obj]

\* Every text a config file may hold when the program starts; an identifier in
\* it is the first one the service assigned.
ConfigTexts ==
    {InvalidText, ArrayText, JsonDump(EmptyDict), JsonDump(Dict(TRUE, None)),
     JsonDump(Dict(TRUE, Some(EmptyStr)))}
    \cup {JsonDump(Dict(TRUE, Some(StoreName(1))))}

VARIABLES
    store,        \* store[p]: self.store, Optional handle
    store_name,   \* store_name[p]: self.store_name, Optional[str]
    frame,        \* frame[p]: the running upload_file call of p, if any
    dirExists,    \* whether config_path.parent exists
    configFile,   \* Optional text of the file at config_path
    created,      \* identifiers the remote service has ever assigned
    live,         \* identifiers the remote service still resolves
    last,         \* history: the manager call that returned in the last step
    obtained,     \* history: obtained[p], name of the handle the service last gave p
    lastCreate,   \* history: name returned by the latest create_store, None if it raised
    app,          \* app[p]: the Streamlit session of process p (src/app.py)
    script,       \* the run of the indexing script (src/scripts/index_pdfs.py)
    calc,         \* the latest call of a calculator (src/core/tools.py)
    pc            \* pc[p]: position of p inside a create_store run step by step

vars ==
    <<store, store_name, frame, dirExists, configFile, created, live, last,
      obtained, lastCreate, app, script, calc, pc>>
managerVars == <<store, store_name>>
fileVars == <<dirExists, configFile>>
remoteVars == <<created, live>>
driverVars == <<app, script, calc, pc>>
\* The action A of the manager, with no caller of it modelled.
Alone(A) == A /\ UNCHANGED driverVars


\* ------------------------------------------------------------ call records
Pre(p) ==
    [store |-> store[p], store_name |-> store_name[p],
     dirExists |-> dirExists, configFile |-> configFile]
NoPre == [store |-> None, store_name |-> None, dirExists |-> FALSE, configFile |-> None]

\* One call to the remote service.
Call(api, name, display, ok) ==
    [api |-> api, name |-> name, display_name |-> display, ok |-> ok]

\* The record of a finished call: what it returned or raised, the remote calls
\* it made, the state it started from, whether a remote call met a fault (for
\* upload_file: whether one raised), and for upload_file the timeout, the
\* number of sleeps, the fetched operation.done values and the last of them.
NoCall ==
    [proc |-> 0, op |-> "none", outcome |-> "none", ret |-> FALSE, error |-> NoError,
     calls |-> <<>>, pre |-> NoPre, fault |-> FALSE, display_name |-> "",
     timeout |-> 0, sleeps |-> 0, done |-> FALSE, statuses |-> <<>>, listed |-> 0]
Returned(p, op, ret, calls, pre) ==
    [NoCall EXCEPT !.proc = p, !.op = op, !.outcome = "return", !.ret = ret,
                   !.calls = calls, !.pre = pre]
Raised(p, op, err, calls, pre) ==
    [NoCall EXCEPT !.proc = p, !.op = op, !.outcome = "raise", !.error = err,
                   !.calls = calls, !.pre = pre]

NoFrame ==
    [active |-> FALSE, timeout |-> 0, elapsed |-> 0, done |-> FALSE, sleeps |-> 0,
     statuses |-> <<>>, calls |-> <<>>, pre |-> NoPre]
Idle(p) == ~frame[p].active

\* --------------------------------------------------------- remote service
\* file_search_stores.get(name=...): fails on a network fault or an identifier
\* the service does not resolve.
RemoteGet(name, fault) ==
    LET ok == ~fault /\ \E k \in live : StoreName(k) = name
    IN [ok |-> ok, handle |-> Handle(name)]

\* file_search_stores.create: the service names the new collection with a
\* token it has not used before (here the least unused number).
NewId == CHOOSE k \in StoreIds \ created : \A j \in StoreIds \ created : k <= j

\* file_search_stores.files.list(file_search_store_name=...): the files of the
\* collection, n of them at the time of the call.
RemoteList(name, fault, n) ==
    LET ok == ~fault /\ \E k \in live : StoreName(k) = name
    IN [ok |-> ok, files |-> IF ok THEN [i \in 1..n |-> i] ELSE <<>>]

\* ------------------------------------------------------------------ floats
\* A Python float, kept to what the calculators can tell apart: nan, 0.0, the
\* two infinities, and sign * 10^exp for the exponents -MaxExp..MaxExp, the
\* range of the format.  A result is rounded to its order of magnitude; beyond
\* the range it becomes inf or 0.0, as IEEE 754 arithmetic makes it.
Float(cls, sign, exp) == [cls |-> cls, sign |-> sign, exp |-> exp]
NaN == Float("nan", 1, 0)
Zero == Float("zero", 1, 0)
Inf(sign) == Float("inf", sign, 0)
Fin(sign, exp) == Float("fin", sign, exp)
Signs == {0 - 1, 1}
Floats ==
    {NaN, Zero} \cup {Inf(sg) : sg \in Signs}
    \cup {Fin(sg, e) : sg \in Signs, e \in (0 - MaxExp)..MaxExp}
Round(sign, exp) ==
    IF exp > MaxExp THEN Inf(sign)
    ELSE IF exp < 0 - MaxExp THEN Zero
    ELSE Fin(sign, exp)

\* x < 0 and x <= 0; both are False for nan.
LtZero(x) == x.cls \in {"fin", "inf"} /\ x.sign < 0
LeZero(x) == x.cls = "zero" \/ LtZero(x)

\* The outcome of an arithmetic step: the exception it raises ("" if none) and
\* its value.
FResult(exc, value) == [exc |-> exc, value |-> value]

\* x * y
FMul(x, y) ==
    IF x.cls = "nan" \/ y.cls = "nan" THEN NaN
    ELSE IF {x.cls, y.cls} = {"zero", "inf"} THEN NaN
    ELSE IF x.cls = "zero" \/ y.cls = "zero" THEN Zero
    ELSE IF x.cls = "inf" \/ y.cls = "inf" THEN Inf(x.sign * y.sign)
    ELSE Round(x.sign * y.sign, x.exp + y.exp)

\* x + y
FAdd(x, y) ==
    IF x.cls = "nan" \/ y.cls = "nan" THEN NaN
    ELSE IF x.cls = "inf" /\ y.cls = "inf"
    THEN IF x.sign = y.sign THEN x ELSE NaN
    ELSE IF x.cls = "inf" THEN x
    ELSE IF y.cls = "inf" THEN y
    ELSE IF x.cls = "zero" THEN y
    ELSE IF y.cls = "zero" THEN x
    ELSE IF x.sign = y.sign THEN Fin(x.sign, IF x.exp >= y.exp THEN x.exp ELSE y.exp)
    ELSE IF x.exp = y.exp THEN Zero
    ELSE IF x.exp > y.exp THEN x ELSE y

\* x / y: ZeroDivisionError for y = 0.0; a quotient below the range is 0.0.
FDiv(x, y) ==
    IF y.cls = "zero" THEN FResult("ZeroDivisionError", NaN)
    ELSE IF x.cls = "nan" \/ y.cls = "nan" THEN FResult("", NaN)
    ELSE IF x.cls = "inf" /\ y.cls = "inf" THEN FResult("", NaN)
    ELSE IF x.cls = "inf" THEN FResult("", Inf(x.sign * y.sign))
    ELSE IF y.cls = "inf" \/ x.cls = "zero" THEN FResult("", Zero)
    ELSE FResult("", Round(x.sign * y.sign, x.exp - y.exp))

\* math.log10(x): ValueError("math domain error") for x <= 0.
FLog10(x) ==
    IF x.cls = "nan" THEN FResult("", NaN)
    ELSE IF LeZero(x) THEN FResult("ValueError", NaN)
    ELSE IF x.cls = "inf" THEN FResult("", x)
    ELSE IF x.exp = 0 THEN FResult("", Zero)
    ELSE FResult("", Fin(IF x.exp < 0 THEN 0 - 1 ELSE 1, 0))

\* ------------------------------------------------------------- calculators
\* src/core/tools.py.  The result of a call: what it returned (value for the
\* float calculators, mean = num/den for isoelectric_point) or raised.
Ratio(num, den) == [num |-> num, den |-> den]
CalcError(type, text) == [type |-> type, text |-> text, arg |-> 0]
CalcReturn(value, mean) ==
    [outcome |-> "return", error |-> NoError, value |-> value, mean |-> mean]
CalcRaise(type, text) ==
    [outcome |-> "raise", error |-> CalcError(type, text), value |-> NaN,
     mean |-> Ratio(0, 1)]
ArithmeticError(exc) ==
    CalcRaise(exc, IF exc = "ValueError" THEN "math domain error"
                   ELSE "float division by zero")

\* A variant whose check lets a zero concentration through.
calculate_ph_ZeroAllowed(pka, acid_conc, base_conc) ==
    IF LtZero(acid_conc) \/ LtZero(base_conc)
    THEN CalcRaise("ValueError", "Concentrations must be positive values")
    ELSE LET ratio == FDiv(base_conc, acid_conc)
             log == FLog10(ratio.value)
         IN IF ratio.exc # "" THEN ArithmeticError(ratio.exc)
            ELSE IF log.exc # "" THEN ArithmeticError(log.exc)
            ELSE CalcReturn(FAdd(pka, log.value), Ratio(0, 1))

\* pka + math.log10(base_conc / acid_conc)
calculate_ph(pka, acid_conc, base_conc) ==
    IF LeZero(acid_conc) \/ LeZero(base_conc)
    THEN CalcRaise("ValueError", "Concentrations must be positive values")
    ELSE LET ratio == FDiv(base_conc, acid_conc)
             log == FLog10(ratio.value)
         IN IF ratio.exc # "" THEN ArithmeticError(ratio.exc)
            ELSE IF log.exc # "" THEN ArithmeticError(log.exc)
            ELSE CalcReturn(FAdd(pka, log.value), Ratio(0, 1))

\* (v_max * substrate_conc) / (km + substrate_conc)
enzyme_kinetics(v_max, km, substrate_conc) ==
    IF LeZero(v_max) \/ LeZero(km) \/ LeZero(substrate_conc)
    THEN CalcRaise("ValueError", "All parameters must be positive values")
    ELSE LET v == FDiv(FMul(v_max, substrate_conc), FAdd(km, substrate_conc))
         IN IF v.exc # "" THEN ArithmeticError(v.exc)
            ELSE CalcReturn(v.value, Ratio(0, 1))

\* pKa values are whole numbers here; the mean of two is kept as a fraction.
PkaValues == {2, 6, 7, 9, 10}
PkaLists == UNION {[1..n -> PkaValues] : n \in 0..MaxPkas}

\* sorted(pka_values): insertion of each value after the values not above it.
RECURSIVE InsertSorted(_, _)
InsertSorted(x, s) ==
    IF s = <<>> THEN <<x>>
    ELSE IF x < Head(s) THEN <<x>> \o s
    ELSE <<Head(s)>> \o InsertSorted(x, Tail(s))
RECURSIVE sorted(_)
sorted(s) ==
    IF s = <<>> THEN <<>>
    ELSE InsertSorted(s[Len(s)], sorted(SubSeq(s, 1, Len(s) - 1)))

\* (a + b) / 2
Mean(a, b) == Ratio(a + b, 2)

\* A variant that takes a middle value of exactly 7 for acidic.
isoelectric_point_AtMost7(pka_values) ==
    IF Len(pka_values) < 2
    THEN CalcRaise("ValueError", "At least 2 pKa values are required")
    ELSE LET sorted_pkas == sorted(pka_values)
         IN IF Len(sorted_pkas) = 2
            THEN CalcReturn(NaN, Mean(sorted_pkas[1], sorted_pkas[2]))
            ELSE IF Len(sorted_pkas) = 3
            THEN IF sorted_pkas[2] <= 7
                 THEN CalcReturn(NaN, Mean(sorted_pkas[1], sorted_pkas[2]))
                 ELSE CalcReturn(NaN, Mean(sorted_pkas[2], sorted_pkas[3]))
            ELSE CalcRaise("ValueError", "Expected 2 or 3 pKa values")

isoelectric_point(pka_values) ==
    IF Len(pka_values) < 2
    THEN CalcRaise("ValueError", "At least 2 pKa values are required")
    ELSE LET sorted_pkas == sorted(pka_values)
         IN IF Len(sorted_pkas) = 2
            THEN CalcReturn(NaN, Mean(sorted_pkas[1], sorted_pkas[2]))
            ELSE IF Len(sorted_pkas) = 3
            THEN IF sorted_pkas[2] < 7
                 THEN CalcReturn(NaN, Mean(sorted_pkas[1], sorted_pkas[2]))
                 ELSE CalcReturn(NaN, Mean(sorted_pkas[2], sorted_pkas[3]))
            ELSE CalcRaise("ValueError", "Expected 2 or 3 pKa values")

\* The record of a calculator call: the function, its arguments, its result
\* (Pending until the function has run).
CalcCall(fn, args, result) == [fn |-> fn, args |-> args, result |-> result]
Pending == [CalcReturn(NaN, Ratio(0, 1)) EXCEPT !.outcome = "pending"]
NoCalc == CalcCall("none", <<>>, Pending)

\* ---------------------------------------------------------------- callers
\* A Streamlit session before its first run: pc is the place of the session in
\* src/app.py; creates counts the create_store calls that returned; restored is
\* the identifier load_existing_store restored at startup (store_loaded);
\* toggles and tools are the checkboxes and the tool list of the chat turn made
\* in the last step (turn), and are reset by every other step of the session.
Toggles(use_ph_calc, use_kinetics, use_pi_calc) ==
    [use_ph_calc |-> use_ph_calc, use_kinetics |-> use_kinetics,
     use_pi_calc |-> use_pi_calc]
NoSession ==
    [pc |-> "start", creates |-> 0, restored |-> None, turn |-> FALSE,
     toggles |-> Toggles(TRUE, TRUE, TRUE), tools |-> <<>>]

\* The indexing script before main(): pdfs is the list find_pdfs returned,
\* secrets the secrets.toml it read, i the index of the file the loop is at,
\* attempts the upload_file calls made (file, timeout, how the call ended),
\* create how create_store ended, creates the collections the service created
\* for the script, exit the exit status (None while running).
NoScript ==
    [pc |-> "start", pdfs |-> <<>>, secrets |-> None, i |-> 0,
     success_count |-> 0, error_count |-> 0, attempts |-> <<>>,
     create |-> "none", creates |-> 0, exit |-> None]

\* ------------------------------------------------------------------- Init
\* __init__: store = None, store_name = None.  The config file is whatever an
\* earlier run left: absent (with or without its directory), unreadable, or a
\* record; an identifier in it was once assigned by the service, which may or
\* may not still resolve it.
InitManager ==
    /\ store = [p \in Procs |-> None]
    /\ store_name = [p \in Procs |-> None]
    /\ frame = [p \in Procs |-> NoFrame]
    /\ \/ /\ configFile = None
          /\ dirExists \in BOOLEAN
          /\ created = {}
       \/ /\ configFile \in {Some(t) : t \in ConfigTexts}
          /\ dirExists = TRUE
          /\ created = {k \in StoreIds : Truthy(DictGet(Val(configFile).obj))
                                          /\ StoreName(k) = Val(DictGet(Val(configFile).obj))}
    /\ live \in SUBSET created
    /\ last = NoCall
    /\ obtained = [p \in Procs |-> None]
    /\ lastCreate = None

\* No caller has started.
InitCallers ==
    /\ app = [p \in Procs |-> NoSession]
    /\ script = NoScript
    /\ pc = [p \in Procs |-> "idle"]

Init == InitManager /\ InitCallers /\ calc = NoCalc


\* ---------------------------------------------------- load_existing_store
\* The try block of load_existing_store on process p, given that the config
\* file exists; fault: the remote call hits a network error.  raised: an
\* exception left the block (then nothing was assigned).
load_try(p, fault) ==
    LET failed == [raised |-> TRUE, exc |-> "", ret |-> FALSE, store |-> store[p],
                   store_name |-> store_name[p], calls |-> <<>>]
        config == JsonLoad(Val(configFile))        \* json.load(f)
        name == DictGet(config.obj)                \* config.get("store_name")
    IN IF ~config.ok
       THEN [failed EXCEPT !.exc = "JSONDecodeError"]
       ELSE IF ~config.isdict
       THEN [failed EXCEPT !.exc = "AttributeError"]
       ELSE IF ~Truthy(name)                       \* if not store_name: return False
       THEN [failed EXCEPT !.raised = FALSE]
       ELSE LET got == RemoteGet(Val(name), fault)
                log == <<Call("get", Val(name), "", got.ok)>>
            IN IF ~got.ok
               THEN [failed EXCEPT !.exc = "RemoteServiceError", !.calls = log]
               ELSE [raised |-> FALSE, exc |-> "", ret |-> TRUE,
                     store |-> Some(got.handle),   \* self.store = ...get(name=store_name)
                     store_name |-> Some(Val(name)),
                     calls |-> log]

\* A variant that catches the parse error only (except json.JSONDecodeError).
load_except_Narrow(t) ==
    IF t.exc = "JSONDecodeError" THEN [t EXCEPT !.raised = FALSE, !.ret = FALSE] ELSE t

\* except Exception: return False
\* A variant whose handler also resets the slot.
load_except_Clear(t) ==
    [t EXCEPT !.raised = FALSE, !.ret = FALSE, !.store = None, !.store_name = None]

load_except(t) == [t EXCEPT !.raised = FALSE, !.ret = FALSE]

load_existing_store(p, fault) ==
    IF IsNone(configFile)                          \* if not self.config_path.exists()
    THEN [raised |-> FALSE, exc |-> "", ret |-> FALSE, store |-> store[p],
          store_name |-> store_name[p], calls |-> <<>>]
    ELSE LET t == load_try(p, fault)
         IN IF t.raised THEN load_except(t) ELSE t

LoadExistingStore(p) ==
    /\ Idle(p)
    /\ \E fault \in BOOLEAN :
         LET r == load_existing_store(p, fault)
             rec == IF r.raised
                    THEN Raised(p, "load_existing_store", [RemoteError EXCEPT !.type = r.exc],
                                r.calls, Pre(p))
                    ELSE Returned(p, "load_existing_store", r.ret, r.calls, Pre(p))
         IN /\ store' = [store EXCEPT ![p] = r.store]
            /\ store_name' = [store_name EXCEPT ![p] = r.store_name]
            /\ obtained' = [obtained EXCEPT ![p] = IF r.ret THEN Some(Val(r.store).name) ELSE @]
            /\ last' = [rec EXCEPT !.fault = fault]
    /\ UNCHANGED <<frame, fileVars, remoteVars, lastCreate>>

\* ------------------------------------------------------------ _save_config
SaveFaults == {"none", "mkdir", "open", "write"}

\* The file system after _save_config with self.store_name = name; fault names
\* the step that raises OSError: mkdir (only when the directory is missing),
\* open(..., "w"), or json.dump after open has truncated the file.
_save_config(name, fault) ==
    IF fault = "mkdir" /\ ~dirExists
    THEN [ok |-> FALSE, dirExists |-> dirExists, configFile |-> configFile]
    ELSE IF fault = "open"
    THEN [ok |-> FALSE, dirExists |-> TRUE, configFile |-> configFile]
    ELSE IF fault = "write"
    THEN [ok |-> FALSE, dirExists |-> TRUE, configFile |-> Some(InvalidText)]
    ELSE [ok |-> TRUE, dirExists |-> TRUE,
          configFile |-> Some(JsonDump(Dict(TRUE, name)))]

\* ------------------------------------------------------------ create_store
DisplayNames == {"bioquimica-study-buddy", "BioChem Study Buddy - Textbooks"}

\* A variant that calls _save_config before it assigns self.store_name.
create_store_SaveFirst(p, display_name, k, fault, saveFault) ==
    IF fault
    THEN [outcome |-> "raise", error |-> RemoteError,
          store |-> store[p], store_name |-> store_name[p],
          dirExists |-> dirExists, configFile |-> configFile, new |-> {},
          calls |-> <<Call("create", EmptyStr, display_name, FALSE)>>]
    ELSE LET handle == Handle(StoreName(k))
             saved == _save_config(store_name[p], saveFault)
         IN [outcome |-> IF saved.ok THEN "return" ELSE "raise",
             error |-> IF saved.ok THEN NoError ELSE OSError,
             store |-> Some(handle), store_name |-> Some(handle.name),
             dirExists |-> saved.dirExists, configFile |-> saved.configFile,
             new |-> {k},
             calls |-> <<Call("create", handle.name, display_name, TRUE)>>]

\* A variant that does not assign self.store_name.
create_store_NoName(p, display_name, k, fault, saveFault) ==
    IF fault
    THEN [outcome |-> "raise", error |-> RemoteError,
          store |-> store[p], store_name |-> store_name[p],
          dirExists |-> dirExists, configFile |-> configFile, new |-> {},
          calls |-> <<Call("create", EmptyStr, display_name, FALSE)>>]
    ELSE LET handle == Handle(StoreName(k))
             saved == _save_config(store_name[p], saveFault)
         IN [outcome |-> IF saved.ok THEN "return" ELSE "raise",
             error |-> IF saved.ok THEN NoError ELSE OSError,
             store |-> Some(handle), store_name |-> store_name[p],
             dirExists |-> saved.dirExists, configFile |-> saved.configFile,
             new |-> {k},
             calls |-> <<Call("create", handle.name, display_name, TRUE)>>]

\* A variant that returns the handle it already holds instead of creating.
create_store_Guarded(p, display_name, k, fault, saveFault) ==
    IF ~IsNone(store[p])
    THEN [outcome |-> "return", error |-> NoError,
          store |-> store[p], store_name |-> store_name[p],
          dirExists |-> dirExists, configFile |-> configFile, new |-> {},
          calls |-> <<>>]
    ELSE IF fault
    THEN [outcome |-> "raise", error |-> RemoteError,
          store |-> store[p], store_name |-> store_name[p],
          dirExists |-> dirExists, configFile |-> configFile, new |-> {},
          calls |-> <<Call("create", EmptyStr, display_name, FALSE)>>]
    ELSE LET handle == Handle(StoreName(k))
             name == Some(handle.name)
             saved == _save_config(name, saveFault)
         IN [outcome |-> IF saved.ok THEN "return" ELSE "raise",
             error |-> IF saved.ok THEN NoError ELSE OSError,
             store |-> Some(handle), store_name |-> name,
             dirExists |-> saved.dirExists, configFile |-> saved.configFile,
             new |-> {k},
             calls |-> <<Call("create", handle.name, display_name, TRUE)>>]

\* The result of create_store(display_name) on process p; k: the identifier the
\* service assigns; fault: the remote create fails; saveFault: see _save_config.
create_store(p, display_name, k, fault, saveFault) ==
    IF fault
    THEN [outcome |-> "raise", error |-> RemoteError,
          store |-> store[p], store_name |-> store_name[p],
          dirExists |-> dirExists, configFile |-> configFile, new |-> {},
          calls |-> <<Call("create", EmptyStr, display_name, FALSE)>>]
    ELSE LET handle == Handle(StoreName(k))
             name == Some(handle.name)             \* self.store_name = self.store.name
             saved == _save_config(name, saveFault)
         IN [outcome |-> IF saved.ok THEN "return" ELSE "raise",
             error |-> IF saved.ok THEN NoError ELSE OSError,
             store |-> Some(handle), store_name |-> name,
             dirExists |-> saved.dirExists, configFile |-> saved.configFile,
             new |-> {k},
             calls |-> <<Call("create", handle.name, display_name, TRUE)>>]

CreateStore(p) ==
    /\ Idle(p)
    /\ created # StoreIds
    /\ \E display_name \in DisplayNames, k \in {NewId}, fault \in BOOLEAN,
          saveFault \in SaveFaults :
         LET r == create_store(p, display_name, k, fault, saveFault)
             ok == r.outcome = "return"
             rec == IF ok
                    THEN Returned(p, "create_store", r.store, r.calls, Pre(p))
                    ELSE Raised(p, "create_store", r.error, r.calls, Pre(p))
         IN /\ (saveFault = "mkdir") => ~dirExists
            /\ fault => saveFault = "none"
            /\ store' = [store EXCEPT ![p] = r.store]
            /\ store_name' = [store_name EXCEPT ![p] = r.store_name]
            /\ dirExists' = r.dirExists
            /\ configFile' = r.configFile
            /\ created' = created \cup r.new
            /\ live' = live \cup r.new
            /\ obtained' = [obtained EXCEPT ![p] = IF r.new # {} THEN Some(StoreName(k)) ELSE @]
            /\ lastCreate' = IF ok THEN Some(Val(r.store).name) ELSE None
            /\ last' = [rec EXCEPT !.fault = fault, !.display_name = display_name]
    /\ UNCHANGED frame


\* ------------------------------------------------------------- upload_file
\* if self.store is None: raise ValueError(...), in upload_file and in
\* get_file_search_tool: the error raised, or NoError.
\* A variant without the check: self.store.name on None raises AttributeError.
RequireStore_Unchecked(p) ==
    IF IsNone(store[p]) THEN [ValueError EXCEPT !.type = "AttributeError", !.text = ""]
    ELSE NoError

RequireStore(p) == IF IsNone(store[p]) THEN ValueError ELSE NoError

\* A variant of the loop test with <= in place of <.
LoopCondition_Inclusive(done, elapsed, timeout) == ~done /\ elapsed <= timeout

\* while not operation.done and elapsed < timeout
LoopCondition(done, elapsed, timeout) == ~done /\ elapsed < timeout

\* A variant that decides by the clock instead of the fetched status.
TimedOut_ByClock(f) == f.elapsed >= f.timeout

\* if not operation.done: raise TimeoutError(...), on the frame f after the loop.
TimedOut(f) == ~f.done

\* upload_file up to the loop: the precondition check and the remote
\* upload_to_file_search_store call.  fault: that call raises (it also raises
\* when the service no longer resolves the store); done: operation.done of the
\* operation it returns.
UploadStart(p, timeout) ==
    /\ Idle(p)
    /\ \E fault \in BOOLEAN, done \in BOOLEAN :
         IF RequireStore(p) # NoError
         THEN /\ last' = [Raised(p, "upload_file", RequireStore(p), <<>>, Pre(p))
                            EXCEPT !.timeout = timeout]
              /\ UNCHANGED frame
         ELSE LET name == Val(store[p]).name
                  got == RemoteGet(name, fault)
                  log == <<Call("start_upload", name, "", got.ok)>>
              IN IF ~got.ok
                 THEN /\ last' = [Raised(p, "upload_file", RemoteError, log, Pre(p))
                                    EXCEPT !.timeout = timeout, !.fault = TRUE]
                      /\ UNCHANGED frame
                 ELSE /\ frame' = [frame EXCEPT ![p] =
                            [active |-> TRUE, timeout |-> timeout, elapsed |-> 0,
                             done |-> done, sleeps |-> 0, statuses |-> <<done>>,
                             calls |-> log, pre |-> Pre(p)]]
                      /\ last' = NoCall
    /\ UNCHANGED <<managerVars, fileVars, remoteVars, obtained, lastCreate>>

\* upload_file(file_path, display_name, timeout) with any timeout.
UploadFile(p) == \E timeout \in Timeouts : UploadStart(p, timeout)

\* One iteration of the loop: time.sleep(5); elapsed += 5; operations.get.
\* fault: operations.get raises; done: operation.done of what it returns.
UploadPoll(p) ==
    /\ frame[p].active
    /\ LoopCondition(frame[p].done, frame[p].elapsed, frame[p].timeout)
    /\ \E fault \in BOOLEAN, done \in BOOLEAN :
         LET f == frame[p]
             log == Append(f.calls, Call("poll", EmptyStr, "", ~fault))
         IN IF fault
            THEN /\ frame' = [frame EXCEPT ![p] = NoFrame]
                 /\ last' = [Raised(p, "upload_file", RemoteError, log, f.pre)
                               EXCEPT !.timeout = f.timeout, !.fault = TRUE,
                                      !.sleeps = f.sleeps + 1, !.done = f.done,
                                      !.statuses = f.statuses]
            ELSE /\ frame' = [frame EXCEPT ![p] =
                       [f EXCEPT !.elapsed = f.elapsed + PollInterval, !.done = done,
                                 !.sleeps = f.sleeps + 1,
                                 !.statuses = Append(f.statuses, done), !.calls = log]]
                 /\ last' = NoCall
    /\ UNCHANGED <<managerVars, fileVars, remoteVars, obtained, lastCreate>>

\* After the loop: raise TimeoutError if not operation.done, else return True.
UploadEnd(p) ==
    /\ frame[p].active
    /\ ~LoopCondition(frame[p].done, frame[p].elapsed, frame[p].timeout)
    /\ LET f == frame[p]
           rec == IF TimedOut(f)
                  THEN Raised(p, "upload_file", TimeoutError(f.timeout), f.calls, f.pre)
                  ELSE Returned(p, "upload_file", TRUE, f.calls, f.pre)
       IN last' = [rec EXCEPT !.timeout = f.timeout, !.sleeps = f.sleeps, !.done = f.done,
                              !.statuses = f.statuses]
    /\ frame' = [frame EXCEPT ![p] = NoFrame]
    /\ UNCHANGED <<managerVars, fileVars, remoteVars, obtained, lastCreate>>

\* ---------------------------------------------------- get_file_search_tool
\* types.Tool(file_search=types.FileSearch(file_search_store_names=[...]))
Tool(names) == [file_search |-> [file_search_store_names |-> names]]

\* A variant that leaves file_search_store_names empty.
get_file_search_tool_Unbound(p) ==
    IF RequireStore(p) # NoError
    THEN [outcome |-> "raise", error |-> RequireStore(p), tool |-> Tool(<<>>)]
    ELSE [outcome |-> "return", error |-> NoError, tool |-> Tool(<<>>)]

get_file_search_tool(p) ==
    IF RequireStore(p) # NoError
    THEN [outcome |-> "raise", error |-> RequireStore(p), tool |-> Tool(<<>>)]
    ELSE [outcome |-> "return", error |-> NoError, tool |-> Tool(<<Val(store[p]).name>>)]

GetFileSearchTool(p) ==
    /\ Idle(p)
    /\ LET r == get_file_search_tool(p)
       IN last' = IF r.outcome = "return"
                  THEN Returned(p, "get_file_search_tool", r.tool, <<>>, Pre(p))
                  ELSE Raised(p, "get_file_search_tool", r.error, <<>>, Pre(p))
    /\ UNCHANGED <<managerVars, frame, fileVars, remoteVars, obtained, lastCreate>>

\* ------------------------------------------------------ get_document_count
\* The try block of get_document_count; fault: the listing call raises (it also
\* raises when the service no longer resolves the name); n: the number of files
\* the service lists.
count_try(p, fault, n) ==
    LET listed == RemoteList(Val(store_name[p]), fault, n)
        log == <<Call("list", Val(store_name[p]), "", listed.ok)>>
    IN [raised |-> ~listed.ok, count |-> Len(listed.files), calls |-> log]

\* A variant without the try/except: a listing error reaches the caller.
get_document_count_NoCatch(p, fault, n) ==
    IF IsNone(store[p]) \/ IsNone(store_name[p])
    THEN [raised |-> FALSE, count |-> 0, calls |-> <<>>]
    ELSE count_try(p, fault, n)

get_document_count(p, fault, n) ==
    IF IsNone(store[p]) \/ IsNone(store_name[p])
    THEN [raised |-> FALSE, count |-> 0, calls |-> <<>>]
    ELSE LET t == count_try(p, fault, n)
         IN IF t.raised                            \* except Exception: return 0
            THEN [t EXCEPT !.raised = FALSE, !.count = 0]
            ELSE t

GetDocumentCount(p) ==
    /\ Idle(p)
    /\ \E fault \in BOOLEAN, n \in 0..MaxDocs :
         LET r == get_document_count(p, fault, n)
             rec == IF r.raised
                    THEN Raised(p, "get_document_count", RemoteError, r.calls, Pre(p))
                    ELSE Returned(p, "get_document_count", r.count, r.calls, Pre(p))
         IN last' = [rec EXCEPT !.fault = fault, !.listed = n]
    /\ UNCHANGED <<managerVars, frame, fileVars, remoteVars, obtained, lastCreate>>

\* ---------------------------------------------------------------- restart
\* The process ends and a new one constructs its manager on the same
\* config path: __init__ sets store and store_name to None.
Restart(p) ==
    /\ Idle(p)
    /\ ~IsNone(store[p])
    /\ store' = [store EXCEPT ![p] = None]
    /\ store_name' = [store_name EXCEPT ![p] = None]
    /\ obtained' = [obtained EXCEPT ![p] = None]
    /\ last' = NoCall
    /\ UNCHANGED <<frame, fileVars, remoteVars, lastCreate>>

\* ------------------------------------------------------------ environment
\* The service destroys a collection out of band.
RemoteDelete(k) ==
    /\ k \in live
    /\ live' = live \ {k}
    /\ last' = NoCall
    /\ UNCHANGED <<managerVars, frame, fileVars, created, obtained, lastCreate>>

\* ------------------------------------------------------------------- Spec
ManagerStep(p) ==
    \/ Alone(LoadExistingStore(p))
    \/ Alone(CreateStore(p))
    \/ Alone(UploadFile(p))
    \/ Alone(UploadPoll(p))
    \/ Alone(UploadEnd(p))
    \/ Alone(GetFileSearchTool(p))
    \/ Alone(GetDocumentCount(p))
    \/ Alone(Restart(p))

Environment == \E k \in StoreIds : Alone(RemoteDelete(k))

Next == (\E p \in SessionProcs : ManagerStep(p)) \/ Environment

Spec == Init /\ [][Next]_vars


\* Weak fairness of the polling loop: a process inside upload_file keeps
\* running (time.sleep returns, the remote call answers).
FairSpec ==
    Spec /\ \A p \in SessionProcs :
              WF_vars(Alone(UploadPoll(p))) /\ WF_vars(Alone(UploadEnd(p)))

\* ------------------------------------------- the calculators, called alone
CalcOnly == <<managerVars, frame, fileVars, remoteVars, last, obtained, lastCreate,
              app, script, pc>>

\* The calls a caller can make, with arguments of every kind.
CalcInputs ==
    {CalcCall("calculate_ph", <<pka, acid_conc, base_conc>>, Pending) :
        pka \in Floats, acid_conc \in Floats, base_conc \in Floats}
    \cup {CalcCall("enzyme_kinetics", <<v_max, km, substrate_conc>>, Pending) :
        v_max \in Floats, km \in Floats, substrate_conc \in Floats}
    \cup {CalcCall("isoelectric_point", pka_values, Pending) : pka_values \in PkaLists}

ToolsInit == InitManager /\ InitCallers /\ calc \in CalcInputs

CalculatePh ==
    /\ calc.fn = "calculate_ph"
    /\ calc.result = Pending
    /\ calc' = [calc EXCEPT !.result = calculate_ph(calc.args[1], calc.args[2], calc.args[3])]
    /\ UNCHANGED CalcOnly

EnzymeKinetics ==
    /\ calc.fn = "enzyme_kinetics"
    /\ calc.result = Pending
    /\ calc' = [calc EXCEPT !.result = enzyme_kinetics(calc.args[1], calc.args[2], calc.args[3])]
    /\ UNCHANGED CalcOnly

IsoelectricPoint ==
    /\ calc.fn = "isoelectric_point"
    /\ calc.result = Pending
    /\ calc' = [calc EXCEPT !.result = isoelectric_point(calc.args)]
    /\ UNCHANGED CalcOnly

ToolsNext == CalculatePh \/ EnzymeKinetics \/ IsoelectricPoint

ToolsSpec == ToolsInit /\ [][ToolsNext]_vars

\* ------------------------------------------- the session driver, src/app.py
AppDisplayName == "bioquimica-study-buddy"

\* An entry of the tools list: a Python callable, or a types.Tool.
Callable(fn) == [callable |-> fn, tool |-> Tool(<<>>)]
Retrieval(tool) == [callable |-> "", tool |-> tool]

\* A variant that puts the retrieval tool first.
BuildTools_RetrievalFirst(p, t) ==
    (IF ~IsNone(store[p]) THEN <<Retrieval(get_file_search_tool(p).tool)>> ELSE <<>>)
    \o (IF t.use_ph_calc THEN <<Callable("calculate_ph")>> ELSE <<>>)
    \o (IF t.use_kinetics THEN <<Callable("enzyme_kinetics")>> ELSE <<>>)
    \o (IF t.use_pi_calc THEN <<Callable("isoelectric_point")>> ELSE <<>>)

\* tools = []; one append per ticked checkbox; then the retrieval tool if the
\* manager's store is set.
BuildTools(p, t) ==
    LET tools0 == <<>>
        tools1 == IF t.use_ph_calc THEN Append(tools0, Callable("calculate_ph")) ELSE tools0
        tools2 == IF t.use_kinetics THEN Append(tools1, Callable("enzyme_kinetics")) ELSE tools1
        tools3 == IF t.use_pi_calc THEN Append(tools2, Callable("isoelectric_point")) ELSE tools2
    IN IF ~IsNone(store[p])
       THEN Append(tools3, Retrieval(get_file_search_tool(p).tool))
       ELSE tools3

\* A variant of the test that always creates.
NeedsStore_Always(p) == TRUE

\* if st.session_state.rag_manager.store is None
NeedsStore(p) == IsNone(store[p])

\* The session after a step that leaves it at place pc.
At(p, place) == [app[p] EXCEPT !.pc = place, !.turn = FALSE, !.tools = <<>>,
                               !.toggles = NoSession.toggles]

\* First run of the script: RAGManager(client), then load_existing_store().
AppStartup(p) ==
    /\ app[p].pc = "start"
    /\ LoadExistingStore(p)
    /\ app' = [app EXCEPT ![p] =
                 [At(p, "ready") EXCEPT !.restored = IF last'.ret THEN store_name'[p]
                                                     ELSE None]]
    /\ UNCHANGED <<script, calc, pc>>

\* "Indexar Documento" with no store held: create_store, whose exception ends
\* the handler in st.error.
IndexCreate(p) ==
    /\ app[p].pc = "ready"
    /\ NeedsStore(p)
    /\ CreateStore(p)
    /\ last'.display_name = AppDisplayName
    /\ app' = [app EXCEPT ![p] =
                 IF last'.outcome = "return"
                 THEN [At(p, "upload") EXCEPT !.creates = @ + 1]
                 ELSE At(p, "ready")]
    /\ UNCHANGED <<script, calc, pc>>

\* The upload_file call of the handler, with the default timeout.
IndexUpload(p) ==
    /\ \/ app[p].pc = "upload"
       \/ app[p].pc = "ready" /\ ~NeedsStore(p)
    /\ UploadStart(p, DefaultTimeout)
    /\ app' = [app EXCEPT ![p] = At(p, IF frame'[p].active THEN "uploading" ELSE "ready")]
    /\ UNCHANGED <<script, calc, pc>>

IndexPoll(p) ==
    /\ app[p].pc = "uploading"
    /\ UploadPoll(p)
    /\ app' = [app EXCEPT ![p] = At(p, IF frame'[p].active THEN "uploading" ELSE "ready")]
    /\ UNCHANGED <<script, calc, pc>>

\* st.success or st.error: the handler is over.
IndexEnd(p) ==
    /\ app[p].pc = "uploading"
    /\ UploadEnd(p)
    /\ app' = [app EXCEPT ![p] = At(p, "ready")]
    /\ UNCHANGED <<script, calc, pc>>

\* A chat turn: the tools list for the model call, from the three checkboxes.
ChatTurn(p) ==
    /\ app[p].pc = "ready"
    /\ \E use_ph_calc \in BOOLEAN, use_kinetics \in BOOLEAN, use_pi_calc \in BOOLEAN :
         LET t == Toggles(use_ph_calc, use_kinetics, use_pi_calc)
         IN app' = [app EXCEPT ![p] = [@ EXCEPT !.turn = TRUE, !.toggles = t,
                                                !.tools = BuildTools(p, t)]]
    /\ last' = NoCall
    /\ UNCHANGED <<managerVars, frame, fileVars, remoteVars, obtained, lastCreate,
                   script, calc, pc>>

\* The session ends and a new one starts.
AppRestart(p) ==
    /\ app[p].pc = "ready"
    /\ Restart(p)
    /\ app' = [app EXCEPT ![p] = NoSession]
    /\ UNCHANGED <<script, calc, pc>>

AppStep(p) ==
    \/ AppStartup(p)
    \/ IndexCreate(p)
    \/ IndexUpload(p)
    \/ IndexPoll(p)
    \/ IndexEnd(p)
    \/ ChatTurn(p)
    \/ AppRestart(p)

AppNext == (\E p \in SessionProcs : AppStep(p)) \/ Environment

AppSpec == Init /\ [][AppNext]_vars

\* ------------------------------ the indexing script, src/scripts/index_pdfs.py
ScriptProc == 2
ScriptDisplayName == "BioChem Study Buddy - Textbooks"
Placeholder == "tu_api_key_de_gemini_aqui"

\* File names are sequences of code points: "a", "B", "c".
FileNames == {<<97>>, <<66>>, <<99>>}
\* PROJECT_ROOT.glob("*.pdf"): some of the files, in any order.
GlobResults ==
    UNION {{g \in [1..n -> FileNames] : \A i, j \in 1..n : g[i] = g[j] => i = j} :
             n \in 0..MaxFiles}

\* str.lower() and the order of str
Lower(c) == IF c \in 65..90 THEN c + 32 ELSE c
lower(name) == [i \in DOMAIN name |-> Lower(name[i])]
RECURSIVE StrLess(_, _)
StrLess(a, b) ==
    IF b = <<>> THEN FALSE
    ELSE IF a = <<>> THEN TRUE
    ELSE IF Head(a) # Head(b) THEN Head(a) < Head(b)
    ELSE StrLess(Tail(a), Tail(b))

\* sorted(pdfs, key=lambda p: p.name.lower()), a stable sort.
RECURSIVE InsertByLower(_, _)
InsertByLower(x, s) ==
    IF s = <<>> THEN <<x>>
    ELSE IF StrLess(lower(x), lower(Head(s))) THEN <<x>> \o s
    ELSE <<Head(s)>> \o InsertByLower(x, Tail(s))
RECURSIVE InsertByName(_, _)
InsertByName(x, s) ==
    IF s = <<>> THEN <<x>>
    ELSE IF StrLess(x, Head(s)) THEN <<x>> \o s
    ELSE <<Head(s)>> \o InsertByName(x, Tail(s))

\* A variant that sorts by the name as it is.
RECURSIVE find_pdfs_CaseSensitive(_)
find_pdfs_CaseSensitive(glob) ==
    IF glob = <<>> THEN <<>>
    ELSE InsertByName(glob[Len(glob)],
                      find_pdfs_CaseSensitive(SubSeq(glob, 1, Len(glob) - 1)))

RECURSIVE find_pdfs(_)
find_pdfs(glob) ==
    IF glob = <<>> THEN <<>>
    ELSE InsertByLower(glob[Len(glob)], find_pdfs(SubSeq(glob, 1, Len(glob) - 1)))

\* .streamlit/secrets.toml: absent, or with GOOGLE_API_KEY absent or a string.
SecretsFiles ==
    {None, Some(None)} \cup {Some(Some(k)) : k \in {"", Placeholder, "AIza"}}

\* load_api_key(): the exception raised ("" if none) and the key returned.
load_api_key(secrets) ==
    IF IsNone(secrets) THEN [raised |-> "FileNotFoundError", api_key |-> ""]
    ELSE LET api_key == Val(secrets)                \* secrets.get("GOOGLE_API_KEY")
         IN IF IsNone(api_key) \/ Val(api_key) = "" \/ Val(api_key) = Placeholder
            THEN [raised |-> "KeyError", api_key |-> ""]
            ELSE [raised |-> "", api_key |-> Val(api_key)]

Attempt(name, timeout, outcome) == [name |-> name, timeout |-> timeout, outcome |-> outcome]

\* How the upload_file call that ended in the step, if one did, moves the loop:
\* success_count or error_count, and the next file.
AfterUpload(sc, rec) ==
    LET n == Len(sc.attempts)
        how == IF rec.outcome = "return" THEN "success" ELSE rec.error.type
    IN [sc EXCEPT !.pc = "loop", !.i = @ + 1,
                  !.success_count = IF rec.outcome = "return" THEN @ + 1 ELSE @,
                  !.error_count = IF rec.outcome = "return" THEN @ ELSE @ + 1,
                  !.attempts = [@ EXCEPT ![n] = [@ EXCEPT !.outcome = how]]]

ScriptOnly == <<managerVars, frame, fileVars, remoteVars, last, obtained, lastCreate>>

\* pdfs = find_pdfs(); if not pdfs: sys.exit(1)
ScriptFind ==
    /\ script.pc = "start"
    /\ \E glob \in GlobResults :
         LET pdfs == find_pdfs(glob)
         IN script' = IF pdfs = <<>>
                      THEN [script EXCEPT !.pc = "exit", !.exit = Some(1)]
                      ELSE [script EXCEPT !.pc = "key", !.pdfs = pdfs]
    /\ UNCHANGED <<ScriptOnly, app, calc, pc>>

\* load_api_key(); except (FileNotFoundError, KeyError): sys.exit(1)
ScriptKey ==
    /\ script.pc = "key"
    /\ \E secrets \in SecretsFiles :
         script' = IF load_api_key(secrets).raised # ""
                   THEN [script EXCEPT !.secrets = secrets, !.pc = "exit", !.exit = Some(1)]
                   ELSE [script EXCEPT !.secrets = secrets, !.pc = "create"]
    /\ UNCHANGED <<ScriptOnly, app, calc, pc>>

\* rag_manager.create_store(display_name=store_name), outside any try: an
\* exception ends the script with a traceback and status 1.
ScriptCreate ==
    /\ script.pc = "create"
    /\ CreateStore(ScriptProc)
    /\ last'.display_name = ScriptDisplayName
    /\ script' = [script EXCEPT
                    !.creates = IF last'.calls[1].ok THEN @ + 1 ELSE @,
                    !.create = IF last'.outcome = "return" THEN "returned" ELSE "raised",
                    !.pc = IF last'.outcome = "return" THEN "loop" ELSE "exit",
                    !.i = 1,
                    !.exit = IF last'.outcome = "return" THEN None ELSE Some(1)]
    /\ UNCHANGED <<app, calc, pc>>

\* The next file of the loop: upload_file(..., timeout=900) up to its loop.
ScriptUpload ==
    /\ script.pc = "loop"
    /\ script.i <= Len(script.pdfs)
    /\ UploadStart(ScriptProc, ScriptTimeout)
    /\ LET sc == [script EXCEPT !.pc = "wait",
                    !.attempts = Append(@, Attempt(script.pdfs[script.i], ScriptTimeout,
                                                   "pending"))]
       IN script' = IF frame'[ScriptProc].active THEN sc ELSE AfterUpload(sc, last')
    /\ UNCHANGED <<app, calc, pc>>

ScriptPoll ==
    /\ script.pc = "wait"
    /\ UploadPoll(ScriptProc)
    /\ script' = IF frame'[ScriptProc].active THEN script ELSE AfterUpload(script, last')
    /\ UNCHANGED <<app, calc, pc>>

\* upload_file returned (success_count += 1) or raised (error_count += 1).
ScriptEnd ==
    /\ script.pc = "wait"
    /\ UploadEnd(ScriptProc)
    /\ script' = AfterUpload(script, last')
    /\ UNCHANGED <<app, calc, pc>>

\* After the loop: the summary; main returns.
ScriptSummary ==
    /\ script.pc = "loop"
    /\ script.i > Len(script.pdfs)
    /\ script' = [script EXCEPT !.pc = "exit", !.exit = Some(0)]
    /\ UNCHANGED <<ScriptOnly, app, calc, pc>>

ScriptStep ==
    \/ ScriptFind
    \/ ScriptKey
    \/ ScriptCreate
    \/ ScriptUpload
    \/ ScriptPoll
    \/ ScriptEnd
    \/ ScriptSummary

ScriptNext == ScriptStep \/ Environment

ScriptSpec == Init /\ [][ScriptNext]_vars

\* ------------------------------- create_store step by step, two processes
\* Two managers on one config path, each running create_store once with no
\* call failing; pc[p] is the place of p: "idle" before the call, "assigned"
\* after lines 80-83, "dir" after mkdir, "opened" after open(..., "w"), "done"
\* after json.dump and the close of the file.
ConcOnly == <<frame, app, script, calc>>

\* self.store = create(...); self.store_name = self.store.name
ConcCreate(p) ==
    /\ pc[p] = "idle"
    /\ created # StoreIds
    /\ LET handle == Handle(StoreName(NewId))
       IN /\ store' = [store EXCEPT ![p] = Some(handle)]
          /\ store_name' = [store_name EXCEPT ![p] = Some(handle.name)]
          /\ obtained' = [obtained EXCEPT ![p] = Some(handle.name)]
    /\ created' = created \cup {NewId}
    /\ live' = live \cup {NewId}
    /\ pc' = [pc EXCEPT ![p] = "assigned"]
    /\ last' = NoCall
    /\ UNCHANGED <<fileVars, lastCreate, ConcOnly>>

\* self.config_path.parent.mkdir(parents=True, exist_ok=True)
ConcMkdir(p) ==
    /\ pc[p] = "assigned"
    /\ dirExists' = TRUE
    /\ pc' = [pc EXCEPT ![p] = "dir"]
    /\ last' = NoCall
    /\ UNCHANGED <<managerVars, configFile, remoteVars, obtained, lastCreate, ConcOnly>>

\* open(self.config_path, "w"): the file is created or emptied.
ConcOpen(p) ==
    /\ pc[p] = "dir"
    /\ configFile' = Some(InvalidText)
    /\ pc' = [pc EXCEPT ![p] = "opened"]
    /\ last' = NoCall
    /\ UNCHANGED <<managerVars, dirExists, remoteVars, obtained, lastCreate, ConcOnly>>

\* The file after text is written at its start over what it holds: text alone
\* when the file is empty or text is at least as long as the content (covers),
\* else text followed by the rest of the content, which is no JSON document.
WriteOver(content, text, covers) ==
    IF content.kind # "object" \/ covers THEN text ELSE InvalidText

\* json.dump({"store_name": self.store_name}, f) and the close of the file: the
\* text goes to the start of the file, through the descriptor opened before;
\* create_store returns.
ConcWrite(p) ==
    /\ pc[p] = "opened"
    /\ \E covers \in BOOLEAN :
         configFile' = Some(WriteOver(Val(configFile),
                                      JsonDump(Dict(TRUE, store_name[p])), covers))
    /\ pc' = [pc EXCEPT ![p] = "done"]
    /\ lastCreate' = store_name[p]
    /\ last' = Returned(p, "create_store", store[p],
                        <<Call("create", Val(store_name[p]), "", TRUE)>>, NoPre)
    /\ UNCHANGED <<managerVars, dirExists, remoteVars, obtained, ConcOnly>>

\* A manager that has not started its create_store reads the config.
ConcLoad(p) ==
    /\ pc[p] = "idle"
    /\ LoadExistingStore(p)
    /\ UNCHANGED driverVars

ConcStep(p) ==
    \/ ConcCreate(p)
    \/ ConcMkdir(p)
    \/ ConcOpen(p)
    \/ ConcWrite(p)
    \/ ConcLoad(p)

ConcNext == \E p \in Procs : ConcStep(p)

ConcSpec == Init /\ [][ConcNext]_vars

\* ================================================================= claims
Proc == last.proc
SlotUnchanged ==
    /\ store[Proc] = last.pre.store
    /\ store_name[Proc] = last.pre.store_name
ConfigUnchanged ==
    /\ configFile = last.pre.configFile
    /\ dirExists = last.pre.dirExists
\* The remote calls of the last call, by api.
CallsOf(api) == {i \in DOMAIN last.calls : last.calls[i].api = api}

\* C1: with the slot unset, upload_file and get_file_search_tool raise the
\* precondition error "A file search store must be created first", having
\* made no remote call and changed neither the slot nor the persisted config.
C1_PreconditionError ==
    (last.op \in {"upload_file", "get_file_search_tool"} /\ IsNone(last.pre.store))
    => /\ last.outcome = "raise"
       /\ last.error.type = "ValueError"
       /\ last.error.text = "A file search store must be created first"
       /\ last.calls = <<>>
       /\ Idle(Proc)
       /\ SlotUnchanged
       /\ ConfigUnchanged

C1_Witness ==
    /\ last.op = "upload_file"
    /\ IsNone(last.pre.store)
    /\ last.outcome = "raise"
    /\ ~IsNone(configFile)

C1_WitnessTool ==
    /\ last.op = "get_file_search_tool"
    /\ IsNone(last.pre.store)
    /\ last.outcome = "raise"


\* Every operation status the call fetched was not done.
NeverDone == \A i \in DOMAIN last.statuses : ~last.statuses[i]

\* C2: with the slot set, a timeout T that is a positive multiple of the poll
\* interval and an operation that never reports done, upload_file makes exactly
\* T/5 sleep-then-poll cycles and raises TimeoutError carrying T.
C2_TimeoutAfterPolls ==
    (/\ last.op = "upload_file"
     /\ ~IsNone(last.pre.store)
     /\ ~last.fault
     /\ last.timeout > 0
     /\ last.timeout % PollInterval = 0
     /\ NeverDone)
    => /\ last.outcome = "raise"
       /\ last.error = TimeoutError(last.timeout)
       /\ last.sleeps = last.timeout \div PollInterval
       /\ Cardinality(CallsOf("poll")) = last.timeout \div PollInterval
       /\ Len(last.statuses) = 1 + last.timeout \div PollInterval
       /\ (last.timeout = 5 => Cardinality(CallsOf("poll")) = 1)

C2_Witness ==
    /\ last.op = "upload_file"
    /\ last.error = TimeoutError(10)
    /\ last.sleeps = 2
    /\ NeverDone
    /\ ~last.fault

\* The service resolves the identifier.
Resolves(name) == \E k \in live : StoreName(k) = name

\* C3: after a successful create_store, load_existing_store in a new manager
\* instance on the same config path, while the service still resolves the
\* identifier, returns True and holds the identifier create_store returned.
C3_RestartRoundTrip ==
    (/\ last.op = "load_existing_store"
     /\ IsNone(last.pre.store)
     /\ IsNone(last.pre.store_name)
     /\ ~IsNone(lastCreate)
     /\ ~last.fault
     /\ Resolves(Val(lastCreate)))
    => /\ last.outcome = "return"
       /\ last.ret = TRUE
       /\ ~IsNone(store[Proc])
       /\ Val(store[Proc]).name = Val(lastCreate)

C3_Witness ==
    /\ last.op = "load_existing_store"
    /\ IsNone(last.pre.store)
    /\ ~IsNone(lastCreate)
    /\ last.ret = TRUE
    /\ Val(store[Proc]).name = Val(lastCreate)
    /\ Val(lastCreate) # StoreName(1)

\* The identifier a config file holds, None if it holds none.
PersistedName(f) ==
    IF f = <<>> THEN <<>>
    ELSE IF f[1].kind = "object" /\ f[1].obj.has_store_name THEN f[1].obj.store_name
    ELSE <<>>
\* The file holds a non-empty identifier.
HasIdentifier(f) == PersistedName(f) # <<>> /\ PersistedName(f) # << <<>> >>
Malformed(f) == f # <<>> /\ f[1].kind # "object"

\* C4: load_existing_store never raises; with a config file that is malformed,
\* or whose identifier the service fails to resolve (not found, network error),
\* it returns False and a fresh manager's slot stays unset; it returns True
\* only if the remote get of the persisted identifier succeeded in that call.
C4_StaleDegrades ==
    last.op = "load_existing_store"
    => /\ last.outcome = "return"
       /\ last.ret \in BOOLEAN
       /\ (last.ret = TRUE
           => /\ Len(last.calls) = 1
              /\ last.calls[1].api = "get"
              /\ last.calls[1].ok
              /\ Some(last.calls[1].name) = PersistedName(last.pre.configFile))
       /\ ((\/ Malformed(last.pre.configFile)
            \/ /\ HasIdentifier(last.pre.configFile)
               /\ (last.fault \/ ~Resolves(Val(PersistedName(last.pre.configFile)))))
           => /\ last.ret = FALSE
              /\ (IsNone(last.pre.store) => IsNone(store[Proc]) /\ IsNone(store_name[Proc])))

\* A fresh manager meets an identifier the service no longer knows (not found).
C4_Witness ==
    /\ last.op = "load_existing_store"
    /\ IsNone(last.pre.store)
    /\ HasIdentifier(last.pre.configFile)
    /\ ~last.fault
    /\ ~Resolves(Val(PersistedName(last.pre.configFile)))
    /\ last.ret = FALSE
    /\ IsNone(store[Proc])

\* C5: with no config file, or a record with no or an empty identifier,
\* load_existing_store returns False without raising, makes no remote call and
\* leaves the slot and the persisted state unchanged.
C5_NothingPersisted ==
    (/\ last.op = "load_existing_store"
     /\ \/ IsNone(last.pre.configFile)
        \/ /\ ~Malformed(last.pre.configFile)
           /\ ~HasIdentifier(last.pre.configFile))
    => /\ last.outcome = "return"
       /\ last.ret = FALSE
       /\ last.calls = <<>>
       /\ SlotUnchanged
       /\ ConfigUnchanged

\* The record holds the empty identifier.
C5_Witness ==
    /\ last.op = "load_existing_store"
    /\ PersistedName(last.pre.configFile) = Some(EmptyStr)
    /\ last.ret = FALSE
    /\ last.calls = <<>>


\* The identifiers in the descriptor the last call returned.
ToolNames == last.ret.file_search.file_search_store_names

\* C6: whenever the slot is set, get_file_search_tool returns a descriptor with
\* exactly one collection identifier, the identifier of the handle held in the
\* slot, which is the one the service most recently gave this manager.
C6_ToolBindsHeldHandle ==
    (last.op = "get_file_search_tool" /\ ~IsNone(last.pre.store))
    => /\ last.outcome = "return"
       /\ Len(ToolNames) = 1
       /\ ToolNames[1] = Val(store[Proc]).name
       /\ Some(ToolNames[1]) = obtained[Proc]

\* The tool binds a collection created in this run after an earlier one.
C6_Witness ==
    /\ last.op = "get_file_search_tool"
    /\ last.outcome = "return"
    /\ ToolNames = <<StoreName(2)>>

\* C7: a successful create_store(display_name) made exactly one remote call, a
\* create with that display name, holds and returns the handle the service
\* returned, and leaves the config file (its directory created if missing)
\* holding exactly that handle's identifier.
C7_CreatePersists ==
    (last.op = "create_store" /\ last.outcome = "return")
    => /\ Len(last.calls) = 1
       /\ last.calls[1].api = "create"
       /\ last.calls[1].ok
       /\ last.calls[1].display_name = last.display_name
       /\ store[Proc] = Some([name |-> last.calls[1].name])
       /\ last.ret = store[Proc]
       /\ dirExists
       /\ configFile # <<>>
       /\ configFile[1].kind = "object"
       /\ PersistedName(configFile) = Some(last.calls[1].name)
       /\ HasIdentifier(configFile)

\* The directory did not exist before the call.
C7_Witness ==
    /\ last.op = "create_store"
    /\ last.outcome = "return"
    /\ ~last.pre.dirExists
    /\ dirExists
    /\ PersistedName(configFile) = Some(Val(store[Proc]).name)

\* C8: a create_store that raises leaves the config file and the slot exactly
\* as they were before the call.
C8_FailedCreateLeavesNoTrace ==
    (last.op = "create_store" /\ last.outcome = "raise")
    => /\ configFile = last.pre.configFile
       /\ SlotUnchanged

\* C9: get_document_count never raises and returns a natural number: 0 with no
\* remote call when the slot is unset, 0 when the listing fails, else the
\* number of files listed for the held identifier; slot and config unchanged.
C9_CountNeverRaises ==
    last.op = "get_document_count"
    => /\ last.outcome = "return"
       /\ last.ret \in Nat
       /\ (IsNone(last.pre.store) => last.ret = 0 /\ last.calls = <<>>)
       /\ (~IsNone(last.pre.store)
           => /\ Len(last.calls) = 1
              /\ last.calls[1].api = "list"
              /\ last.calls[1].name = Val(last.pre.store).name
              /\ ((last.fault \/ ~Resolves(Val(last.pre.store).name)) => last.ret = 0)
              /\ (~last.calls[1].ok => last.ret = 0)
              /\ (last.calls[1].ok => last.ret = last.listed))
       /\ Idle(Proc)
       /\ SlotUnchanged
       /\ ConfigUnchanged

C9_Witness ==
    /\ last.op = "get_document_count"
    /\ last.ret = 2
    /\ last.calls # <<>>

\* C10 (the result): with the slot set and a remote that does not raise, an
\* upload_file call ends as the last fetched status decides: it returns True exactly if
\* that status is done (zero sleeps and polls if done at the start), and raises
\* TimeoutError exactly if it is not done, which happens only once
\* elapsed >= timeout.
C10_DecidedByLastStatus ==
    (last.op = "upload_file" /\ ~IsNone(last.pre.store) /\ ~last.fault)
    => /\ last.outcome \in {"return", "raise"}
       /\ last.statuses # <<>>
       /\ last.done = last.statuses[Len(last.statuses)]
       /\ (last.outcome = "return" <=> last.done)
       /\ (last.outcome = "raise" <=> ~last.done)
       /\ (last.outcome = "return" => last.ret = TRUE)
       /\ (last.outcome = "raise"
           => /\ last.error = TimeoutError(last.timeout)
              /\ last.sleeps * PollInterval >= last.timeout)
       /\ last.sleeps = Cardinality(CallsOf("poll"))
       /\ (last.statuses[1] => last.sleeps = 0 /\ last.outcome = "return")

\* C10, with termination: the above in every state, and every upload_file call
\* that entered its loop leaves it (returns or raises).
C10_UploadTerminates ==
    /\ []C10_DecidedByLastStatus
    /\ \A p \in SessionProcs : frame[p].active ~> ~frame[p].active

\* done is first seen on the poll that brings elapsed to the timeout.
C10_Witness ==
    /\ last.op = "upload_file"
    /\ last.outcome = "return"
    /\ last.sleeps = 2
    /\ last.sleeps * PollInterval = last.timeout
    /\ last.statuses = <<FALSE, FALSE, TRUE>>


\* C11: for every timeout T >= 0 the time an upload_file call has slept, in
\* steps of 5, never exceeds T, during the call and when it ends.
C11_SleepWithinTimeout ==
    /\ \A p \in Procs :
         (frame[p].active /\ frame[p].timeout >= 0)
         => frame[p].sleeps * PollInterval <= frame[p].timeout
    /\ (last.op = "upload_file" /\ last.timeout >= 0)
       => last.sleeps * PollInterval <= last.timeout


\* C16: the config file is written only by a create_store whose remote create
\* succeeded, as its last step: load_existing_store, upload_file,
\* get_file_search_tool and get_document_count leave it as it was in every
\* outcome, a create_store changes it only after its remote create succeeded
\* and when it returns the file holds the new identifier, and no call removes
\* the file or an identifier it held.
C16_ConfigWrittenOnlyByCreate ==
    /\ (last.op \in {"load_existing_store", "upload_file", "get_file_search_tool",
                     "get_document_count"})
       => configFile = last.pre.configFile
    /\ (last.op = "create_store" /\ configFile # last.pre.configFile)
       => /\ Len(last.calls) = 1
          /\ last.calls[1].api = "create"
          /\ last.calls[1].ok
          /\ last.outcome = "return"
             => PersistedName(configFile) = Some(last.calls[1].name)
    /\ (last.op # "none" /\ last.pre.configFile # <<>>)
       => /\ configFile # <<>>
          /\ HasIdentifier(last.pre.configFile) => HasIdentifier(configFile)

\* A successful create_store on a manager that already held a handle.
C17_Case ==
    /\ last.op = "create_store"
    /\ last.outcome = "return"
    /\ ~IsNone(last.pre.store)

\* What such a call leaves behind.
C17_Replaces ==
    C17_Case
    => /\ Len(last.calls) = 1
       /\ last.calls[1].api = "create"
       /\ last.calls[1].ok
       /\ last.calls[1].name # Val(last.pre.store).name
       /\ store[Proc] = Some([name |-> last.calls[1].name])
       /\ store_name[Proc] = Some(last.calls[1].name)
       /\ PersistedName(configFile) = Some(last.calls[1].name)
       /\ \E k \in created : StoreName(k) = Val(last.pre.store).name

\* C17: create_store has no guard on a set slot: when it returns on a manager
\* that already held a handle it has made one new remote create, the slot and
\* the config file hold the new identifier and no longer the previous one, and
\* the call removed no collection from the service.
C17_CreateOverwrites ==
    /\ []C17_Replaces
    /\ [][last'.op = "create_store" => live \subseteq live']_vars

C17_Witness ==
    /\ C17_Case
    /\ store[Proc] # last.pre.store
    /\ \E k \in live : StoreName(k) = Val(last.pre.store).name

\* C20: a load_existing_store that returns False leaves the slot as it was; no
\* call of the manager leaves a slot unset that was set when the call began; a
\* handle the service gave the manager stays in the slot, so that upload_file
\* and get_file_search_tool do not raise the precondition error, also after a
\* later load_existing_store has failed.
C20_SlotNeverUnset ==
    /\ (last.op = "load_existing_store" /\ last.ret = FALSE) => SlotUnchanged
    /\ (last.op # "none" /\ ~IsNone(last.pre.store)) => ~IsNone(store[Proc])
    /\ \A p \in Procs :
         ~IsNone(obtained[p])
         => /\ ~IsNone(store[p])
            /\ Val(store[p]).name = Val(obtained[p])
    /\ (last.op \in {"upload_file", "get_file_search_tool"} /\ ~IsNone(obtained[Proc]))
       => ~(last.outcome = "raise" /\ last.error.type = "ValueError")

\* A load that failed on a manager holding a handle.
C20_Witness ==
    /\ last.op = "load_existing_store"
    /\ last.ret = FALSE
    /\ ~IsNone(last.pre.store)
    /\ store[Proc] = last.pre.store


\* x <= 0 and x > 0 for an argument of a calculator; nan is neither.
NonPositive(x) == x.cls = "zero" \/ (x.cls # "nan" /\ x.sign = 0 - 1)
Positive(x) == x.cls # "zero" /\ x.cls # "nan" /\ x.sign = 1
Called(fn) == calc.fn = fn /\ calc.result.outcome # "pending"
Rejected(text) ==
    /\ calc.result.outcome = "raise"
    /\ calc.result.error.type = "ValueError"
    /\ calc.result.error.text = text

\* C13: calculate_ph raises its validation error, and returns nothing, when
\* acid_conc <= 0 or base_conc <= 0, whatever pka is; enzyme_kinetics raises its
\* validation error when v_max, km or substrate_conc is <= 0; with all of these
\* inputs positive neither raises a validation error (enzyme_kinetics returns;
\* calculate_ph returns unless the quotient is rounded to 0.0, where log10
\* raises its own domain error).
C13_PositiveInputsRequired ==
    /\ Called("calculate_ph")
       => /\ (NonPositive(calc.args[2]) \/ NonPositive(calc.args[3]))
             => Rejected("Concentrations must be positive values")
          /\ (Positive(calc.args[2]) /\ Positive(calc.args[3]))
             => /\ ~Rejected("Concentrations must be positive values")
                /\ calc.result.outcome = "raise"
                   => calc.result.error.text = "math domain error"
    /\ Called("enzyme_kinetics")
       => /\ (\E i \in 1..3 : NonPositive(calc.args[i]))
             => Rejected("All parameters must be positive values")
          /\ (\A i \in 1..3 : Positive(calc.args[i]))
             => calc.result.outcome = "return"

\* A zero acid concentration with a positive base concentration.
C13_Witness ==
    /\ calc.fn = "calculate_ph"
    /\ calc.args[2].cls = "zero"
    /\ Positive(calc.args[3])
    /\ Rejected("Concentrations must be positive values")

\* The least, the greatest and the remaining one of three values.
Least(v) == CHOOSE x \in {v[i] : i \in DOMAIN v} : \A j \in DOMAIN v : x <= v[j]
Greatest(v) == CHOOSE x \in {v[i] : i \in DOMAIN v} : \A j \in DOMAIN v : x >= v[j]
Middle(v) == v[1] + v[2] + v[3] - Least(v) - Greatest(v)

\* C14: isoelectric_point returns the mean of two values; of three values the
\* mean of the two lowest when the middle one in ascending order is below 7 and
\* of the two highest otherwise, also when it is exactly 7; with fewer than two
\* or more than three values it raises a validation error.
C14_IsoelectricPoint ==
    Called("isoelectric_point")
    => LET v == calc.args
           r == calc.result
       IN /\ Len(v) = 2
             => r.outcome = "return" /\ r.mean.num = v[1] + v[2] /\ r.mean.den = 2
          /\ Len(v) = 3
             => /\ r.outcome = "return"
                /\ r.mean.den = 2
                /\ r.mean.num = IF Middle(v) < 7 THEN Least(v) + Middle(v)
                                ELSE Middle(v) + Greatest(v)
          /\ (Len(v) < 2 \/ Len(v) > 3)
             => r.outcome = "raise" /\ r.error.type = "ValueError"

\* Three values given out of order whose middle one is exactly 7.
C14_Witness ==
    /\ calc.fn = "isoelectric_point"
    /\ calc.args = <<10, 7, 2>>
    /\ calc.result.outcome = "return"
    /\ calc.result.mean = [num |-> 17, den |-> 2]


\* The calculators ticked in a chat turn, in the order of the checkboxes.
Ticked(t) ==
    (IF t.use_ph_calc THEN <<"calculate_ph">> ELSE <<>>)
    \o (IF t.use_kinetics THEN <<"enzyme_kinetics">> ELSE <<>>)
    \o (IF t.use_pi_calc THEN <<"isoelectric_point">> ELSE <<>>)

\* C12: the tools list of a chat turn holds the ticked calculators and only
\* them, in the order calculate_ph, enzyme_kinetics, isoelectric_point, then the
\* retrieval tool bound to the held store as last element if and only if the
\* manager holds one; no entry appears twice.
C12_ToolsList ==
    \A p \in SessionProcs :
        app[p].turn
        => LET tools == app[p].tools
               want == Ticked(app[p].toggles)
               held == store[p] # <<>>
           IN /\ Len(tools) = Len(want) + (IF held THEN 1 ELSE 0)
              /\ \A i \in 1..Len(want) :
                    /\ tools[i].callable = want[i]
                    /\ tools[i].tool.file_search.file_search_store_names = <<>>
              /\ held
                 => /\ tools[Len(tools)].callable = ""
                    /\ tools[Len(tools)].tool.file_search.file_search_store_names
                         = <<store[p][1].name>>
              /\ \A i, j \in 1..Len(tools) : tools[i] = tools[j] => i = j

\* A turn with one calculator unticked and a store held.
C12_Witness ==
    \E p \in SessionProcs :
        /\ app[p].turn
        /\ app[p].toggles = Toggles(TRUE, FALSE, TRUE)
        /\ store[p] # <<>>
        /\ Len(app[p].tools) = 3


\* C19: in a session, create_store is called only with the slot unset; once a
\* store was restored at startup or obtained by a creation, every upload goes
\* to that store; the session counts at most one create_store that returned,
\* and while it holds a restored store it has created none and the config file
\* still holds the restored identifier.
C19_CreateOnlyWhenUnset ==
    \A p \in SessionProcs :
        /\ (last.op = "create_store" /\ last.proc = p) => last.pre.store = <<>>
        /\ app[p].creates <= 1
        /\ app[p].restored # <<>>
           => /\ app[p].creates = 0
              /\ store_name[p] = app[p].restored
              /\ PersistedName(configFile) = app[p].restored
        /\ (obtained[p] # <<>> /\ app[p].pc # "start")
           => /\ store[p] = Some([name |-> obtained[p][1]])
              /\ (last.op = "upload_file" /\ last.proc = p /\ last.calls # <<>>)
                 => last.calls[1].name = obtained[p][1]

\* An upload that succeeded in a session that created its store.
C19_Witness ==
    \E p \in SessionProcs :
        /\ app[p].creates = 1
        /\ app[p].pc = "ready"
        /\ last.op = "upload_file"
        /\ last.outcome = "return"
        /\ last.pre.store = store[p]
        /\ last.timeout = DefaultTimeout


\* The secrets file gives no usable credential: no file, no key, an empty key
\* or the placeholder.
NoCredential(f) ==
    f = <<>> \/ f[1] = <<>> \/ f[1][1] = "" \/ f[1][1] = "tu_api_key_de_gemini_aqui"
\* A name with its capital letters made small, and the order of such names.
CaseFolded(name) == [i \in DOMAIN name |-> IF name[i] >= 65 /\ name[i] <= 90
                                            THEN name[i] + 32 ELSE name[i]]
ComesBefore(a, b) ==
    \/ Len(a) < Len(b) /\ \A k \in DOMAIN a : a[k] = b[k]
    \/ \E k \in DOMAIN a \cap DOMAIN b :
         a[k] < b[k] /\ \A j \in 1..(k - 1) : a[j] = b[j]
\* The script has ended after finding files and reading a usable credential.
C15_RanToCreate ==
    script.pc = "exit" /\ script.pdfs # <<>> /\ ~NoCredential(script.secrets)
\* The early exits: no file found, or no usable credential.
C15_EarlyExit ==
    (script.pc = "exit" /\ (script.pdfs = <<>> \/ NoCredential(script.secrets)))
    => /\ script.exit = Some(1)
       /\ script.creates = 0
       /\ script.attempts = <<>>
\* The uploads made so far: one per file, in the order of the list, which is
\* the case-insensitive order of the names, each with the timeout 900; every
\* call that ended was counted once.
C15_Uploads ==
    /\ Len(script.attempts) <= Len(script.pdfs)
    /\ \A k \in DOMAIN script.attempts :
         /\ script.attempts[k].name = script.pdfs[k]
         /\ script.attempts[k].timeout = 900
    /\ \A j, k \in DOMAIN script.pdfs :
         j < k => ~ComesBefore(CaseFolded(script.pdfs[k]), CaseFolded(script.pdfs[j]))
    /\ script.success_count + script.error_count
         = Cardinality({k \in DOMAIN script.attempts :
                          script.attempts[k].outcome # "pending"})
    /\ script.success_count
         = Cardinality({k \in DOMAIN script.attempts :
                          script.attempts[k].outcome = "success"})

\* C15 as stated: the script exits nonzero without creating a collection when
\* it finds no file or no usable credential; in every other run it has at its
\* end created exactly one collection and called upload_file once for each
\* file found, in case-insensitive name order with timeout 900, so that
\* success_count + error_count is the number of files found.
C15_EveryFileAttempted ==
    /\ C15_EarlyExit
    /\ C15_Uploads
    /\ C15_RanToCreate
       => /\ script.creates = 1
          /\ Len(script.attempts) = Len(script.pdfs)
          /\ script.success_count + script.error_count = Len(script.pdfs)

\* C15, amended: as above where create_store returns; where create_store
\* raises, the script ends at once with status 1 and has called upload_file
\* for no file (with at most one collection created).
C15_EveryFileAttemptedAfterCreate ==
    /\ C15_EarlyExit
    /\ C15_Uploads
    /\ script.creates <= 1
    /\ (C15_RanToCreate /\ script.create = "returned")
       => /\ script.exit = Some(0)
          /\ script.creates = 1
          /\ Len(script.attempts) = Len(script.pdfs)
          /\ script.success_count + script.error_count = Len(script.pdfs)
    /\ (C15_RanToCreate /\ script.create = "raised")
       => /\ script.exit = Some(1)
          /\ script.attempts = <<>>
          /\ script.success_count + script.error_count = 0

\* A run over "a" and "B" in which the first upload timed out and the second
\* succeeded.
C15_Witness ==
    /\ script.pc = "exit"
    /\ script.exit = Some(0)
    /\ script.pdfs = << <<97>>, <<66>> >>
    /\ Len(script.attempts) = 2
    /\ script.attempts[1].outcome = "TimeoutError"
    /\ script.attempts[2].outcome = "success"
    /\ script.error_count = 1
    /\ script.success_count = 1


\* C18: when two managers on one config path have each completed a
\* create_store, whatever the interleaving of their steps, the config file
\* holds the identifier of the one that wrote last, never a mixture or an
\* empty record, so that a new manager would restore it, and each manager
\* holds its own handle, different from the other's.
C18_LastWriterWins ==
    (\A p \in Procs : pc[p] = "done")
    => /\ configFile # <<>>
       /\ configFile[1].kind = "object"
       /\ HasIdentifier(configFile)
       /\ PersistedName(configFile) = lastCreate
       /\ \A p \in Procs : store[p] = Some([name |-> obtained[p][1]])
       /\ \A p, q \in Procs : p # q => store[p] # store[q]


\* C21: in every state of a manager, self.store is None if and only if
\* self.store_name is None, and when they are set store_name is the name of the
\* handle in store; so the collection upload_file and get_file_search_tool
\* address through the handle is the one get_document_count addresses through
\* the string.
C21_FieldsAgree ==
    /\ \A p \in Procs :
         /\ store[p] = <<>> <=> store_name[p] = <<>>
         /\ store[p] # <<>> => store_name[p] = <<store[p][1].name>>
    /\ (last.op = "upload_file" /\ last.calls # <<>>)
       => last.calls[1].name = last.pre.store_name[1]
    /\ (last.op = "get_file_search_tool" /\ last.outcome = "return")
       => last.ret.file_search.file_search_store_names = <<last.pre.store_name[1]>>
    /\ (last.op = "get_document_count" /\ last.calls # <<>>)
       => last.calls[1].name = last.pre.store[1].name

\* A listing made through the string by a manager that holds a handle.
C21_Witness ==
    /\ last.op = "get_document_count"
    /\ last.calls # <<>>
    /\ last.calls[1].ok
    /\ last.pre.store # <<>>
    /\ last.calls[1].name = last.pre.store[1].name

\* C22: in a single process with no other writer of the config file, whenever
\* the slot holds a handle the config file holds the identifier of that handle,
\* after any sequence of calls that succeed or fail, a failed write inside
\* create_store included.
C22_SlotMatchesConfig ==
    \A p \in SessionProcs :
        store[p] # <<>> => PersistedName(configFile) = <<store[p][1].name>>

====
